---- MODULE Spec2Model ----
(***************************************************************************)
(* Market data ingestion scheduler                                         *)
(* (src/apps/Playgound/QuantaraAI_scheduler/main.py).                      *)
(*                                                                         *)
(* State: the four OHLCV tables and the four indicator tables behind the   *)
(* repositories, the position of the single process() task, and the local  *)
(* variables of the routine it is in.  One action per I/O step of the      *)
(* routines: provider fetch, repository read, repository upsert, one       *)
(* indicator-loop iteration.  Every I/O step has a failing outcome.        *)
(*                                                                         *)
(* Time is counted in 30-minute candles since the epoch; timestamps are    *)
(* epoch milliseconds as in the source.  Prices and volumes are small      *)
(* integers: the Float64 casts of update_interval_record preserve them.    *)
(*                                                                         *)
(* Beside process() (Spec) the module holds four smaller specifications:   *)
(* SpecUpsert, one upsert applied twice; SpecChat, test_chat() of the      *)
(* Studio harness (src/apps/Playgound/Studio/main.py); SpecSelect, the     *)
(* choice of DataProvider at import; SpecCycles, refresh cycles that       *)
(* overlap on the shared tables.  Each leaves the variables of the others  *)
(* at rest.                                                                *)
(***************************************************************************)
EXTENDS Integers, Sequences, FiniteSets, TLC

\* ---------------------------------------------------------------- bounds
NumSymbols == 2      \* how many of the COINS the model tracks
MaxTime == 2         \* the clock shows candle MaxTime or the one before
NumPatterns == 2     \* distinct candle shapes the provider can return
MaxHist == 2         \* most buckets a historical fetch returns
MaxFaults == 1       \* caught indicator failures injected per run of process()
NumCycles == 2       \* refresh cycles that can overlap

\* ------------------------------------------------------ program constants
MsPerSecond == 1000          \* main.py:173 (// 1000) and :205, :256 (* 1000)
CandleSeconds == 1800        \* main.py:172 interval="30m"

interval_names == <<"raw", "1h", "4h", "1d">>

AllCoins == <<"BTC", "ETH", "SOL", "NEIRO">>
COINS == SubSeq(AllCoins, 1, NumSymbols)

TsPredicate == "s.timestamp == t.timestamp"
TsSymbolPredicate == "s.timestamp == t.timestamp AND s.symbol == t.symbol"

\* ---------------------------------------------------------------- helpers
Range(s) == {s[j] : j \in 1..Len(s)}

Max(a, b) == IF a >= b THEN a ELSE b
Min(a, b) == IF a <= b THEN a ELSE b

CoinIndex(sym) == CHOOSE j \in 1..Len(AllCoins) : AllCoins[j] = sym

RECURSIVE Concat(_)
Concat(ss) == IF ss = <<>> THEN <<>> ELSE Head(ss) \o Concat(Tail(ss))

\* Seconds spanned by one bucket of a resolution.
IntervalSeconds(interval_name) ==
    CASE interval_name = "raw" -> CandleSeconds
      [] interval_name = "1h" -> 3600
      [] interval_name = "4h" -> 14400
      [] interval_name = "1d" -> 86400

\* get_interval_start_time: floor to the start of the hour / 4-hour block /
\* day, UTC.  Takes and returns epoch seconds.
get_interval_start_time(current_time, interval_name) ==
    (current_time \div IntervalSeconds(interval_name)) * IntervalSeconds(interval_name)

\* --------------------------------------------------------------- provider
\* The candle of shape k for the j-th coin: low <= open, close <= high.
Candle(k, j) ==
    [open |-> j + k + 1, high |-> j + 2 * k + 1, low |-> j + (k % 2),
     close |-> j + (k % 2) + 1, volume |-> k]

Row(ts, sym, c) ==
    [timestamp |-> ts, symbol |-> sym, open |-> c.open, high |-> c.high,
     low |-> c.low, close |-> c.close, volume |-> c.volume]

\* Epoch milliseconds of the candle that opens at clock tick t.
CandleMs(t) == t * CandleSeconds * MsPerSecond

\* get_current_ohlcv(symbols, "30m"): one row per returned symbol, all with
\* the open time of the current 30-minute candle.
get_current_ohlcv(symbols, k, t) ==
    [j \in 1..Len(symbols) |-> Row(CandleMs(t), symbols[j], Candle(k, CoinIndex(symbols[j])))]

\* Bucket starts (epoch ms) of the last n buckets of a resolution, oldest
\* first, ending with the bucket that holds clock tick t.
HistBuckets(interval_name, n, t) ==
    LET len == IntervalSeconds(interval_name)
        cur == get_interval_start_time(t * CandleSeconds, interval_name) \div len
        first == Max(0, cur - n + 1)
    IN [b \in 1..(cur - first + 1) |-> (first + b - 1) * len * MsPerSecond]

\* get_historical_ohlcv(symbols, interval, limit): per symbol, the last
\* `limit` candles of the resolution.
get_historical_ohlcv(symbols, interval_name, limit, k, t) ==
    LET bs == HistBuckets(interval_name, limit, t)
    IN Concat([j \in 1..Len(symbols) |->
                 [b \in 1..Len(bs) |-> Row(bs[b], symbols[j], Candle(k, CoinIndex(symbols[j])))]])

\* ------------------------------------------------------------- repository
\* The match predicate of an upsert, s a source row and t a target row.
Match(predicate, s, t) ==
    IF predicate = TsPredicate
    THEN s.timestamp = t.timestamp
    ELSE s.timestamp = t.timestamp /\ s.symbol = t.symbol

Matching(predicate, source, t) == SelectSeq(source, LAMBDA s : Match(predicate, s, t))

\* The rows a target row becomes.  An unmatched row is kept.  A row matched
\* by one source row takes that row's values.  A row matched by several
\* source rows is ambiguous; the storage engine either emits one row per
\* match ("all") or lets the last match win ("last").
Matched(policy, predicate, source, t) ==
    LET m == Matching(predicate, source, t)
    IN IF m = <<>> THEN <<t>>
       ELSE IF policy = "all" THEN m
       ELSE <<m[Len(m)]>>

\* Source rows that match no target row are inserted.
NotMatched(predicate, target, source) ==
    SelectSeq(source, LAMBDA s : \A j \in 1..Len(target) : ~Match(predicate, s, target[j]))

\* repository.update(df, predicate): upsert of df into the table.
update(policy, table, df, predicate) ==
    Concat([j \in 1..Len(table) |-> Matched(policy, predicate, df, table[j])])
        \o NotMatched(predicate, table, df)

\* repository.get_by_timestamp(ms)
get_by_timestamp(table, ms) == SelectSeq(table, LAMBDA r : r.timestamp = ms)

\* repository.get_all()
get_all(table) == table

\* ------------------------------------------------------------ aggregation
\* polars refuses to combine columns of different lengths.
ShapeError(existing_df, new_data_df) == Len(existing_df) # Len(new_data_df)

\* Mutant: the merge keeps the existing high instead of the larger one.
update_interval_record_KeepsHigh(existing_df, new_data_df) ==
    [n \in 1..Len(existing_df) |->
        [timestamp |-> existing_df[n].timestamp,
         symbol |-> existing_df[n].symbol,
         open |-> existing_df[n].open,
         high |-> existing_df[n].high,
         low |-> Min(existing_df[n].low, new_data_df[n].low),
         close |-> new_data_df[n].close,
         volume |-> existing_df[n].volume + new_data_df[n].volume]]

\* Mutant: max_horizontal and min_horizontal are swapped.
update_interval_record_Swapped(existing_df, new_data_df) ==
    [n \in 1..Len(existing_df) |->
        [timestamp |-> existing_df[n].timestamp,
         symbol |-> existing_df[n].symbol,
         open |-> existing_df[n].open,
         high |-> Min(existing_df[n].high, new_data_df[n].high),
         low |-> Max(existing_df[n].low, new_data_df[n].low),
         close |-> new_data_df[n].close,
         volume |-> existing_df[n].volume + new_data_df[n].volume]]

update_interval_record(existing_df, new_data_df) ==
    [n \in 1..Len(existing_df) |->
        [timestamp |-> existing_df[n].timestamp,
         symbol |-> existing_df[n].symbol,
         open |-> existing_df[n].open,
         high |-> Max(existing_df[n].high, new_data_df[n].high),
         low |-> Min(existing_df[n].low, new_data_df[n].low),
         close |-> new_data_df[n].close,
         volume |-> existing_df[n].volume + new_data_df[n].volume]]

\* Mutant: the created record keeps the observation's own timestamp.
create_new_interval_record_RawTs(interval_start_time, interval_name, new_data_df) ==
    [n \in 1..Len(new_data_df) |->
        [timestamp |-> new_data_df[n].timestamp,
         symbol |-> new_data_df[n].symbol,
         open |-> new_data_df[n].open,
         high |-> new_data_df[n].high,
         low |-> new_data_df[n].low,
         close |-> new_data_df[n].close,
         volume |-> new_data_df[n].volume]]

create_new_interval_record(interval_start_time, interval_name, new_data_df) ==
    [n \in 1..Len(new_data_df) |->
        [timestamp |-> interval_start_time * MsPerSecond,
         symbol |-> new_data_df[n].symbol,
         open |-> new_data_df[n].open,
         high |-> new_data_df[n].high,
         low |-> new_data_df[n].low,
         close |-> new_data_df[n].close,
         volume |-> new_data_df[n].volume]]

\* ------------------------------------------------------------- indicators
\* Stable insertion of a row into a timestamp-sorted sequence.
RECURSIVE InsertSorted(_, _)
InsertSorted(r, sorted) ==
    IF sorted = <<>> THEN <<r>>
    ELSE IF r.timestamp < Head(sorted).timestamp THEN <<r>> \o sorted
    ELSE <<Head(sorted)>> \o InsertSorted(r, Tail(sorted))

RECURSIVE SortByTimestamp(_)
SortByTimestamp(rows) ==
    IF rows = <<>> THEN <<>>
    ELSE InsertSorted(rows[Len(rows)], SortByTimestamp(SubSeq(rows, 1, Len(rows) - 1)))

\* df.sort(by=["symbol", "timestamp"]).filter(symbol == sym)
SymbolFrame(df, sym) == SortByTimestamp(SelectSeq(df, LAMBDA r : r.symbol = sym))

\* calculate_ta_indicators: one indicator row per row of the symbol's sorted
\* series, at the same timestamp; the value is a two-candle sum of closes.
calculate_ta_indicators(symbol_df) ==
    [n \in 1..Len(symbol_df) |->
        [timestamp |-> symbol_df[n].timestamp,
         symbol |-> symbol_df[n].symbol,
         value |-> symbol_df[n].close + (IF n > 1 THEN symbol_df[n - 1].close ELSE 0)]]

\* Nothing reads an indicator table back, so the order of its rows is not
\* part of the state: the rows are kept by symbol, timestamp and value.
IndicatorBefore(a, b) ==
    \/ CoinIndex(a.symbol) < CoinIndex(b.symbol)
    \/ /\ a.symbol = b.symbol
       /\ \/ a.timestamp < b.timestamp
          \/ a.timestamp = b.timestamp /\ a.value < b.value

RECURSIVE InsertIndicator(_, _)
InsertIndicator(r, sorted) ==
    IF sorted = <<>> THEN <<r>>
    ELSE IF IndicatorBefore(r, Head(sorted)) THEN <<r>> \o sorted
    ELSE <<Head(sorted)>> \o InsertIndicator(r, Tail(sorted))

RECURSIVE IndicatorTable(_)
IndicatorTable(rows) ==
    IF rows = <<>> THEN <<>>
    ELSE InsertIndicator(Head(rows), IndicatorTable(Tail(rows)))

\* ------------------------------------------------------------------ state
VARIABLES
    ohlcv,          \* [resolution -> rows of table ohlcv_<resolution>]
    indicators,     \* [resolution -> rows of table indicators_<resolution>]
    policy,         \* how the storage engine resolves an ambiguous match
    clock,          \* the current 30-minute candle
    provider,       \* the DataProvider() instance in use: what it lists and returns
    faults,         \* indicator failures caught so far
    pc,             \* the step process() is about to take
    caller,         \* who called update_indicators_data: "seed" or "job"
    i,              \* index into interval_names of the loop in progress
    raw_data,       \* the batch last fetched from the provider (df)
    current_time,   \* update_ohlcv_data's reference time, epoch seconds
    existing_df,    \* update_interval_data's bucket lookup
    updated_df,     \* update_interval_data's record to upsert
    df,             \* update_indicators_data's table snapshot
    todo,           \* symbols the indicator loop has not visited yet
    error,          \* what aborted process(), "" if nothing
    seeded,         \* calls of seed() returned
    jobs,           \* calls of data_ingestion_job() begun
    writes,         \* OHLCV tables upserted in this cycle, in order
    ind_started,    \* TRUE once update_indicators_data began in this cycle
    ind_written,    \* indicator tables upserted in this cycle
    caught,         \* <<resolution, symbol>> whose failure was caught in this cycle
    logged,         \* the failure the last step logged: "calc", "storage" or ""
    visited,        \* <<resolution, symbol>> the indicator loop went through in this cycle
    registry,       \* Studio: registry.plugins, slug -> the registered plugin class
    plugins,        \* Studio: test_chat's list of plugin instances
    llm,            \* Studio: test_chat's model handle
    saver,          \* Studio: the in-memory checkpoint: "none", "open" or "closed"
    graph,          \* Studio: what create_graph returned, "none" before
    environ,        \* os.environ.get("DATA_PROVIDER"), "unset" if absent
    configured,     \* the DATA_PROVIDER value the module was imported under
    DataProvider,   \* the class the module-level import bound, "" before the import
    data_provider,  \* the class of the instance each routine made, "" before
    deployment,     \* overlapping cycles: tasks of one event loop, or processes
    cycles          \* overlapping cycles: each cycle's position and local variables

vars == <<ohlcv, indicators, policy, clock, provider, faults, pc, caller, i, raw_data,
          current_time, existing_df, updated_df, df, todo, error, seeded, jobs,
          writes, ind_started, ind_written, caught, logged, visited,
          registry, plugins, llm, saver, graph,
          environ, configured, DataProvider, data_provider, deployment, cycles>>

harness == <<registry, plugins, llm, saver, graph>>
selection == <<environ, configured, DataProvider, data_provider>>
overlap == <<deployment, cycles>>

tables == <<ohlcv, indicators>>
locals == <<raw_data, current_time, existing_df, updated_df, df, todo>>
history == <<seeded, jobs, writes, ind_started, ind_written, caught, logged, visited>>

Resolutions == Range(interval_names)
Policies == {"all", "last"}

\* The symbol lists a provider can return rows for: COINS in order, COINS
\* with one symbol missing, or nothing at all.
Listings(seq) ==
    {seq, <<>>} \cup {SelectSeq(seq, LAMBDA x : x # y) : y \in Range(seq)}

\* A DataProvider() instance: the symbols it returns rows for and the shape
\* of the candles it returns.
Providers == [symbols : Listings(COINS), k : 1..NumPatterns]
SeedProviders == {p \in Providers : p.symbols # <<>>}

\* test_chat() of the Studio harness has not run: nothing is registered, no
\* checkpoint was opened, no graph was built.
NoGraph == [llm |-> "", plugins |-> <<>>, memory |-> ""]

HarnessIdle ==
    /\ registry = <<>>
    /\ plugins = <<>>
    /\ llm = ""
    /\ saver = "none"
    /\ graph = NoGraph

\* The scheduler module as the runs of process() see it: the import is not
\* followed here.
SelectionIdle ==
    /\ environ = "unset"
    /\ configured = "unset"
    /\ DataProvider = ""
    /\ data_provider = <<>>

\* No refresh cycle runs beside process().
OverlapIdle ==
    /\ deployment = ""
    /\ cycles = <<>>

Init ==
    /\ HarnessIdle
    /\ SelectionIdle
    /\ OverlapIdle
    /\ ohlcv = [r \in Resolutions |-> <<>>]
    /\ indicators = [r \in Resolutions |-> <<>>]
    /\ policy \in Policies
    /\ clock \in (MaxTime - 1)..MaxTime
    /\ provider \in SeedProviders
    /\ faults = 0
    /\ pc = "seed_fetch"
    /\ caller = "seed"
    /\ i = 1
    /\ raw_data = <<>>
    /\ current_time = 0
    /\ existing_df = <<>>
    /\ updated_df = <<>>
    /\ df = <<>>
    /\ todo = {}
    /\ error = ""
    /\ seeded = 0
    /\ jobs = 0
    /\ writes = <<>>
    /\ ind_started = FALSE
    /\ ind_written = {}
    /\ caught = {}
    /\ logged = ""
    /\ visited = {}

\* An uncaught exception: process() ends where it is.
Abort(kind) ==
    /\ pc' = "aborted"
    /\ error' = kind

\* ---------------------------------------------------------------- seed()
IntervalName == interval_names[i]

\* Entering update_indicators_data from seed() or data_ingestion_job().
CallUpdateIndicators(from) ==
    /\ pc' = "ind_load"
    /\ caller' = from
    /\ i' = 1
    /\ ind_started' = TRUE

\* The for loop of seed() moves on; after its last resolution seed() calls
\* update_indicators_data.
NextSeedInterval ==
    IF i < Len(interval_names)
    THEN /\ pc' = "seed_fetch"
         /\ i' = i + 1
         /\ UNCHANGED <<caller, ind_started>>
    ELSE CallUpdateIndicators("seed")

\* The limit seed() passes to the provider, cut to the model's history.
HistLimit(interval_name) == Min(IF interval_name = "raw" THEN 1000 ELSE 100, MaxHist)

\* Mutant: an empty result ends the loop of seed() ("break").
SeedSkipStops ==
    /\ CallUpdateIndicators("seed")
    /\ UNCHANGED error

\* seed(): "if not raw_data: continue".
SeedSkip ==
    /\ NextSeedInterval
    /\ UNCHANGED error

\* seed(): one historical fetch; an empty result skips the resolution.
SeedFetch ==
    /\ pc = "seed_fetch"
    /\ \E symbols \in {<<>>, provider.symbols} :
         raw_data' = get_historical_ohlcv(symbols, IntervalName, HistLimit(IntervalName),
                                          provider.k, clock)
    /\ IF raw_data' = <<>>
       THEN SeedSkip
       ELSE /\ pc' = "seed_upsert"
            /\ UNCHANGED <<i, caller, ind_started, error>>
    /\ UNCHANGED <<tables, policy, clock, provider, faults, current_time, existing_df,
                   updated_df, df, todo, seeded, jobs, writes,
                   ind_written, caught, logged, visited>>
    /\ UNCHANGED <<harness, selection, overlap>>

\* The provider raises: nothing in seed() catches it.
SeedFetchFails ==
    /\ pc = "seed_fetch"
    /\ Abort("provider")
    /\ UNCHANGED <<tables, policy, clock, provider, faults, caller, i, locals, history>>
    /\ UNCHANGED <<harness, selection, overlap>>

\* seed(): upsert of the historical batch, matched on timestamp.
SeedUpsert ==
    /\ pc = "seed_upsert"
    /\ ohlcv' = [ohlcv EXCEPT ![IntervalName] = update(policy, @, raw_data, TsPredicate)]
    /\ writes' = Append(writes, IntervalName)
    /\ NextSeedInterval
    /\ UNCHANGED <<indicators, policy, clock, provider, faults, raw_data, current_time,
                   existing_df, updated_df, df, todo, error, seeded, jobs,
                   ind_written, caught, logged, visited>>
    /\ UNCHANGED <<harness, selection, overlap>>

SeedUpsertFails ==
    /\ pc = "seed_upsert"
    /\ Abort("storage")
    /\ UNCHANGED <<tables, policy, clock, provider, faults, caller, i, locals, history>>
    /\ UNCHANGED <<harness, selection, overlap>>

\* ------------------------------------------------- update_indicators_data
\* Mutant: process() ends when seed() returns, without the refresh cycle.
NextIndicatorIntervalNoJob ==
    IF i < Len(interval_names)
    THEN /\ pc' = "ind_load"
         /\ i' = i + 1
         /\ UNCHANGED seeded
    ELSE /\ pc' = "done"
         /\ i' = 1
         /\ seeded' = IF caller = "seed" THEN seeded + 1 ELSE seeded

\* The for loop over interval_names moves on.  After the last resolution the
\* routine returns: to seed(), which returns to process(), which starts
\* data_ingestion_job(); or to data_ingestion_job(), which ends process().
NextIndicatorInterval ==
    IF i < Len(interval_names)
    THEN /\ pc' = "ind_load"
         /\ i' = i + 1
         /\ UNCHANGED seeded
    ELSE IF caller = "seed"
    THEN /\ pc' = "job_fetch"
         /\ i' = 1
         /\ seeded' = seeded + 1
    ELSE /\ pc' = "done"
         /\ i' = 1
         /\ UNCHANGED seeded

\* get_all() of the resolution; an empty table skips the resolution.
IndLoad ==
    /\ pc = "ind_load"
    /\ df' = get_all(ohlcv[IntervalName])
    /\ IF df' = <<>>
       THEN /\ NextIndicatorInterval
            /\ todo' = {}
       ELSE /\ pc' = "ind_symbol"
            /\ todo' = {r.symbol : r \in Range(df')}
            /\ UNCHANGED <<i, seeded>>
    /\ logged' = ""
    /\ UNCHANGED <<tables, policy, clock, provider, faults, caller, raw_data, current_time,
                   existing_df, updated_df, error, jobs, writes, ind_started,
                   ind_written, caught, visited>>
    /\ UNCHANGED <<harness, selection, overlap>>

IndLoadFails ==
    /\ pc = "ind_load"
    /\ Abort("storage")
    /\ logged' = ""
    /\ UNCHANGED <<tables, policy, clock, provider, faults, caller, i, locals, seeded,
                   jobs, writes, ind_started, ind_written, caught, visited>>
    /\ UNCHANGED <<harness, selection, overlap>>

\* df["symbol"].unique() of the frame sorted by symbol: the loop visits the
\* symbols in sorted order (the first COINS are in alphabetical order).
NextInLoop == {x \in todo : \A y \in todo : CoinIndex(x) <= CoinIndex(y)}

\* The symbol loop moves on, or the resolution is finished.
NextSymbol(sym) ==
    /\ todo' = todo \ {sym}
    /\ visited' = visited \cup {<<IntervalName, sym>>}
    /\ IF todo' = {}
       THEN NextIndicatorInterval
       ELSE UNCHANGED <<pc, i, seeded>>

\* One iteration of the symbol loop: compute the symbol's indicators and
\* upsert them, matched on timestamp and symbol.
IndSymbol ==
    /\ pc = "ind_symbol"
    /\ \E sym \in NextInLoop :
         /\ indicators' = [indicators EXCEPT ![IntervalName] =
                IndicatorTable(update(policy, @, calculate_ta_indicators(SymbolFrame(df, sym)),
                                      TsSymbolPredicate))]
         /\ NextSymbol(sym)
    /\ ind_written' = ind_written \cup {IntervalName}
    /\ logged' = ""
    /\ UNCHANGED <<ohlcv, policy, clock, provider, faults, caller, raw_data, current_time,
                   existing_df, updated_df, df, error, jobs, writes, ind_started, caught>>
    /\ UNCHANGED <<harness, selection, overlap>>

\* Mutant: the exception is logged and raised again.
HandleIndicatorErrorRaises(sym, kind) ==
    /\ caught' = caught \cup {<<IntervalName, sym>>}
    /\ logged' = kind
    /\ Abort(kind)
    /\ UNCHANGED <<todo, visited, i, seeded>>

\* What the except clause of the symbol loop does with an exception raised
\* in the try block: log it and continue with the next symbol.
HandleIndicatorError(sym, kind) ==
    /\ caught' = caught \cup {<<IntervalName, sym>>}
    /\ logged' = kind
    /\ NextSymbol(sym)
    /\ UNCHANGED error

\* calculate_ta_indicators raises ("calc") or the indicator upsert raises
\* ("storage"); both are inside the try block.
IndSymbolFails ==
    /\ pc = "ind_symbol"
    /\ faults < MaxFaults
    /\ faults' = faults + 1
    /\ \E sym \in NextInLoop, kind \in {"calc", "storage"} : HandleIndicatorError(sym, kind)
    /\ UNCHANGED <<tables, policy, clock, provider, caller, raw_data, current_time,
                   existing_df, updated_df, df, jobs, writes, ind_started,
                   ind_written>>
    /\ UNCHANGED <<harness, selection, overlap>>

\* ----------------------------------- data_ingestion_job, update_ohlcv_data
\* data_ingestion_job() begins: update_ohlcv_data() fetches the current
\* candles and reads its reference time from the first row.  An empty batch
\* has no first row.
JobFetch ==
    /\ pc = "job_fetch"
    /\ jobs' = jobs + 1
    /\ provider' \in Providers
    /\ raw_data' = get_current_ohlcv(provider'.symbols, provider'.k, clock)
    /\ IF raw_data' = <<>>
       THEN /\ Abort("IndexError")
            /\ UNCHANGED current_time
       ELSE /\ current_time' = raw_data'[1].timestamp \div MsPerSecond
            /\ pc' = "raw_upsert"
            /\ UNCHANGED error
    /\ writes' = <<>>
    /\ ind_started' = FALSE
    /\ ind_written' = {}
    /\ caught' = {}
    /\ logged' = ""
    /\ visited' = {}
    /\ UNCHANGED <<tables, policy, clock, faults, caller, i, existing_df,
                   updated_df, df, todo, seeded>>
    /\ UNCHANGED <<harness, selection, overlap>>

\* Mutant: data_ingestion_job swallows the exception and goes on to
\* update_indicators_data.
JobCatch(kind) ==
    /\ error' = kind
    /\ CallUpdateIndicators("job")

\* An exception raised in update_ohlcv_data: neither it nor
\* data_ingestion_job nor process has a handler.
JobRaise(kind) ==
    /\ Abort(kind)
    /\ ind_started' = FALSE
    /\ UNCHANGED <<caller, i>>

\* The provider raises on the current-candle fetch.
JobFetchFails ==
    /\ pc = "job_fetch"
    /\ jobs' = jobs + 1
    /\ JobRaise("provider")
    /\ writes' = <<>>
    /\ ind_written' = {}
    /\ caught' = {}
    /\ logged' = ""
    /\ visited' = {}
    /\ UNCHANGED <<tables, policy, clock, provider, faults, locals, seeded>>
    /\ UNCHANGED <<harness, selection, overlap>>

\* update_ohlcv_data(): upsert of the batch into ohlcv_raw, then the loop
\* over interval_names[1:] begins.
RawUpsert ==
    /\ pc = "raw_upsert"
    /\ ohlcv' = [ohlcv EXCEPT !["raw"] = update(policy, @, raw_data, TsPredicate)]
    /\ writes' = Append(writes, "raw")
    /\ pc' = "interval_read"
    /\ i' = 2
    /\ UNCHANGED <<indicators, policy, clock, provider, faults, caller, locals, error,
                   seeded, jobs, ind_started, ind_written, caught, logged, visited>>
    /\ UNCHANGED <<harness, selection, overlap>>

RawUpsertFails ==
    /\ pc = "raw_upsert"
    /\ Abort("storage")
    /\ UNCHANGED <<tables, policy, clock, provider, faults, caller, i, locals, history>>
    /\ UNCHANGED <<harness, selection, overlap>>

\* ---------------------------------------------------- update_interval_data
\* The bucket start of the resolution, epoch milliseconds.
IntervalStartMs == get_interval_start_time(current_time, IntervalName) * MsPerSecond

\* update_interval_data(): look the bucket up, then merge into it or create
\* it.  The merge raises when the two frames differ in length.
IntervalRead ==
    /\ pc = "interval_read"
    /\ existing_df' = get_by_timestamp(ohlcv[IntervalName], IntervalStartMs)
    /\ IF Len(existing_df') > 0
       THEN IF ShapeError(existing_df', raw_data)
            THEN /\ Abort("ShapeError")
                 /\ UNCHANGED updated_df
            ELSE /\ updated_df' = update_interval_record(existing_df', raw_data)
                 /\ pc' = "interval_upsert"
                 /\ UNCHANGED error
       ELSE /\ updated_df' = create_new_interval_record(
                                 get_interval_start_time(current_time, IntervalName),
                                 IntervalName, raw_data)
            /\ pc' = "interval_upsert"
            /\ UNCHANGED error
    /\ UNCHANGED <<tables, policy, clock, provider, faults, caller, i, raw_data,
                   current_time, df, todo, history>>
    /\ UNCHANGED <<harness, selection, overlap>>

IntervalReadFails ==
    /\ pc = "interval_read"
    /\ Abort("storage")
    /\ UNCHANGED <<tables, policy, clock, provider, faults, caller, i, locals, history>>
    /\ UNCHANGED <<harness, selection, overlap>>

\* Mutant: the loop steps over every other resolution.
NextCoarserIntervalSkips ==
    IF i + 1 < Len(interval_names)
    THEN /\ pc' = "interval_read"
         /\ i' = i + 2
         /\ UNCHANGED <<caller, ind_started>>
    ELSE CallUpdateIndicators("job")

\* The loop over interval_names[1:] moves on; after "1d" update_ohlcv_data
\* returns and data_ingestion_job calls update_indicators_data.
NextCoarserInterval ==
    IF i < Len(interval_names)
    THEN /\ pc' = "interval_read"
         /\ i' = i + 1
         /\ UNCHANGED <<caller, ind_started>>
    ELSE CallUpdateIndicators("job")

\* update_interval_data(): upsert of the merged or created record, matched
\* on timestamp.
IntervalUpsert ==
    /\ pc = "interval_upsert"
    /\ ohlcv' = [ohlcv EXCEPT ![IntervalName] = update(policy, @, updated_df, TsPredicate)]
    /\ writes' = Append(writes, IntervalName)
    /\ NextCoarserInterval
    /\ UNCHANGED <<indicators, policy, clock, provider, faults, locals, error,
                   seeded, jobs, ind_written, caught, logged, visited>>
    /\ UNCHANGED <<harness, selection, overlap>>

IntervalUpsertFails ==
    /\ pc = "interval_upsert"
    /\ Abort("storage")
    /\ UNCHANGED <<tables, policy, clock, provider, faults, caller, i, locals, history>>
    /\ UNCHANGED <<harness, selection, overlap>>

Next ==
    \/ SeedFetch
    \/ SeedFetchFails
    \/ SeedUpsert
    \/ SeedUpsertFails
    \/ IndLoad
    \/ IndLoadFails
    \/ IndSymbol
    \/ IndSymbolFails
    \/ JobFetch
    \/ JobFetchFails
    \/ RawUpsert
    \/ RawUpsertFails
    \/ IntervalRead
    \/ IntervalReadFails
    \/ IntervalUpsert
    \/ IntervalUpsertFails

Spec == Init /\ [][Next]_vars

\* ------------------------------------------------- the upsert, on its own
\* repository.update(df, predicate="s.timestamp == t.timestamp") applied
\* twice with the same batch to an empty table: the batch is any historical
\* batch seed() can fetch or any current batch update_ohlcv_data() can fetch.
InitUpsert ==
    /\ HarnessIdle
    /\ SelectionIdle
    /\ OverlapIdle
    /\ ohlcv = [r \in Resolutions |-> <<>>]
    /\ indicators = [r \in Resolutions |-> <<>>]
    /\ policy \in Policies
    /\ clock \in (MaxTime - 1)..MaxTime
    /\ provider \in Providers
    /\ i \in 1..Len(interval_names)
    /\ raw_data \in {get_historical_ohlcv(provider.symbols, IntervalName,
                                           HistLimit(IntervalName), provider.k, clock),
                     get_current_ohlcv(provider.symbols, provider.k, clock)}
    /\ pc = "upsert_1"
    /\ faults = 0
    /\ caller = "seed"
    /\ current_time = 0
    /\ existing_df = <<>>
    /\ updated_df = <<>>
    /\ df = <<>>
    /\ todo = {}
    /\ error = ""
    /\ seeded = 0
    /\ jobs = 0
    /\ writes = <<>>
    /\ ind_started = FALSE
    /\ ind_written = {}
    /\ caught = {}
    /\ logged = ""
    /\ visited = {}

\* The first upsert; df keeps what the table holds after it.
UpsertOnce ==
    /\ pc = "upsert_1"
    /\ ohlcv' = [ohlcv EXCEPT ![IntervalName] = update(policy, @, raw_data, TsPredicate)]
    /\ df' = get_all(ohlcv'[IntervalName])
    /\ pc' = "upsert_2"
    /\ UNCHANGED <<indicators, policy, clock, provider, faults, caller, i, raw_data,
                   current_time, existing_df, updated_df, todo, error, history>>
    /\ UNCHANGED <<harness, selection, overlap>>

\* The same upsert again.
UpsertTwice ==
    /\ pc = "upsert_2"
    /\ ohlcv' = [ohlcv EXCEPT ![IntervalName] = update(policy, @, raw_data, TsPredicate)]
    /\ pc' = "upserted"
    /\ UNCHANGED <<indicators, policy, clock, provider, faults, caller, i, locals,
                   error, history>>
    /\ UNCHANGED <<harness, selection, overlap>>

NextUpsert ==
    \/ UpsertOnce
    \/ UpsertTwice

SpecUpsert == InitUpsert /\ [][NextUpsert]_vars

\* ------------------------------------------------------ Studio: test_chat
\* (src/apps/Playgound/Studio/main.py)
\* process() of the scheduler does not run beside the other programs.
SchedulerIdle ==
    /\ ohlcv = [r \in Resolutions |-> <<>>]
    /\ indicators = [r \in Resolutions |-> <<>>]
    /\ policy = "last"
    /\ clock = 0
    /\ provider = [symbols |-> <<>>, k |-> 1]
    /\ faults = 0
    /\ caller = ""
    /\ i = 1
    /\ raw_data = <<>>
    /\ current_time = 0
    /\ existing_df = <<>>
    /\ updated_df = <<>>
    /\ df = <<>>
    /\ todo = {}
    /\ seeded = 0
    /\ jobs = 0
    /\ writes = <<>>
    /\ ind_started = FALSE
    /\ ind_written = {}
    /\ caught = {}
    /\ logged = ""
    /\ visited = {}

scheduler == <<ohlcv, indicators, policy, clock, provider, faults, caller, i, locals, history>>

plugin_names == <<"wallet", "QuantaraAI", "coin-technical-analyzer",
                  "coin-technical-chart-searcher">>

\* The plugin of libs/community registers itself under its own slug, which
\* is not one of plugin_names.
CommunitySlug == "solana-bonk-educator"

\* The values a plugin's exclude attribute can hold; "None" is neither.
ExcludeValues == {"True", "False", "None"}

\* What the plugin modules can have registered once they are loaded: the
\* community plugin, and any of plugin_names with any exclude attribute.
Registries ==
    UNION {[S \cup {CommunitySlug} -> ExcludeValues] : S \in SUBSET Range(plugin_names)}

\* plugins = [registry.plugins[plugin_name]() for plugin_name in plugin_names]
Instantiate(reg) ==
    [n \in 1..Len(plugin_names) |->
        [slug |-> plugin_names[n], exclude |-> reg[plugin_names[n]]]]

\* Mutant: the filter keeps what is not excluded ("if not p.exclude").
FilterNotExcluded(ps) == SelectSeq(ps, LAMBDA p : p.exclude # "True")

\* plugins = [p for p in plugins if p.exclude is False]
FilterExcluded(ps) == SelectSeq(ps, LAMBDA p : p.exclude = "False")

\* The handles get_model() can return.
Models == {"model_a", "model_b"}

\* create_graph(llm, plugins, memory=saver): the graph keeps the model, the
\* plugins and the checkpoint it was built with.
create_graph(model, ps, memory) == [llm |-> model, plugins |-> ps, memory |-> memory]

\* The connection string of the checkpoint.
InMemory == ":memory:"

\* Mutant: the checkpoint is closed after the call returns, without a
\* finally: an exception leaves it open.
WithExitNoFinally(raised) == IF raised THEN "open" ELSE "closed"

\* Leaving the with block, by falling off its end or by an exception,
\* releases the checkpoint.
WithExit(raised) == "closed"

InitChat ==
    /\ SchedulerIdle
    /\ SelectionIdle
    /\ OverlapIdle
    /\ HarnessIdle
    /\ pc = "preload"
    /\ error = ""

\* _preload_modules(): the plugin modules load and register themselves.
Preload ==
    /\ pc = "preload"
    /\ registry' \in Registries
    /\ pc' = "plugins"
    /\ UNCHANGED <<plugins, llm, saver, graph, error, scheduler, selection, overlap>>

\* Lines 18-20: look every slug of plugin_names up, instantiate it, and keep
\* the instances whose exclude is False.  A slug that is not registered
\* raises KeyError.
SelectPlugins ==
    /\ pc = "plugins"
    /\ IF Range(plugin_names) \subseteq DOMAIN registry
       THEN /\ plugins' = FilterExcluded(Instantiate(registry))
            /\ pc' = "get_model"
            /\ UNCHANGED error
       ELSE /\ pc' = "raised"
            /\ error' = "KeyError"
            /\ UNCHANGED plugins
    /\ UNCHANGED <<registry, llm, saver, graph, scheduler, selection, overlap>>

\* llm = get_model(), which returns a handle or raises.
GetModel ==
    /\ pc = "get_model"
    /\ \/ /\ llm' \in Models
          /\ pc' = "open_saver"
          /\ UNCHANGED error
       \/ /\ pc' = "raised"
          /\ error' = "model"
          /\ UNCHANGED llm
    /\ UNCHANGED <<registry, plugins, saver, graph, scheduler, selection, overlap>>

\* with SqliteSaver.from_conn_string(":memory:") as saver: the checkpoint is
\* open inside the block, where create_graph is called.
OpenSaver ==
    /\ pc = "open_saver"
    /\ saver' = "open"
    /\ pc' = "create_graph"
    /\ UNCHANGED <<registry, plugins, llm, graph, error, scheduler, selection, overlap>>

\* create_graph returns: the with block ends and test_chat returns the graph.
CreateGraph ==
    /\ pc = "create_graph"
    /\ graph' = create_graph(llm, plugins, InMemory)
    /\ saver' = WithExit(FALSE)
    /\ pc' = "returned"
    /\ UNCHANGED <<registry, plugins, llm, error, scheduler, selection, overlap>>

\* create_graph raises: the exception leaves the with block and test_chat.
CreateGraphRaises ==
    /\ pc = "create_graph"
    /\ saver' = WithExit(TRUE)
    /\ pc' = "raised"
    /\ error' = "graph"
    /\ UNCHANGED <<registry, plugins, llm, graph, scheduler, selection, overlap>>

NextChat ==
    \/ Preload
    \/ SelectPlugins
    \/ GetModel
    \/ OpenSaver
    \/ CreateGraph
    \/ CreateGraphRaises

SpecChat == InitChat /\ [][NextChat]_vars

\* ------------------------------------------ provider selection at import
\* (QuantaraAI_scheduler/main.py, lines 13-19, 171, 302)
\* What os.environ.get("DATA_PROVIDER") can return; "unset" is None.
EnvValues == {"unset", "binance", "coinpaprika", "dummy", "Binance", ""}

Binance == "BinanceCoinPriceDataProvider"
CoinPaprika == "CoinPaprikaCoinPriceDataProvider"
Dummy == "DummyCoinPriceDataProvider"

\* Mutant: the elif branch is missing.
SelectProviderNoElif(value) == IF value = "binance" THEN Binance ELSE Dummy

\* The if / elif / else around the three imports "as DataProvider".
SelectProvider(value) ==
    IF value = "binance" THEN Binance
    ELSE IF value = "coinpaprika" THEN CoinPaprika
    ELSE Dummy

InitSelect ==
    /\ SchedulerIdle
    /\ HarnessIdle
    /\ OverlapIdle
    /\ environ \in EnvValues
    /\ configured = environ
    /\ DataProvider = ""
    /\ data_provider = [seed |-> "", update_ohlcv_data |-> ""]
    /\ pc = "import"
    /\ error = ""

\* The module is imported: DataProvider is bound once.  The environment can
\* be changed afterwards.
Import ==
    /\ pc = "import"
    /\ DataProvider' = SelectProvider(environ)
    /\ configured' = environ
    /\ environ' \in EnvValues
    /\ pc' = "seed"
    /\ UNCHANGED <<data_provider, error, scheduler, harness, overlap>>

\* seed(): data_provider = DataProvider()
SeedProvider ==
    /\ pc = "seed"
    /\ data_provider' = [data_provider EXCEPT !.seed = DataProvider]
    /\ environ' \in EnvValues
    /\ pc' = "update_ohlcv_data"
    /\ UNCHANGED <<configured, DataProvider, error, scheduler, harness, overlap>>

\* update_ohlcv_data() of the refresh cycle: data_provider = DataProvider()
JobProvider ==
    /\ pc = "update_ohlcv_data"
    /\ data_provider' = [data_provider EXCEPT !.update_ohlcv_data = DataProvider]
    /\ pc' = "done"
    /\ UNCHANGED <<environ, configured, DataProvider, error, scheduler, harness, overlap>>

NextSelect ==
    \/ Import
    \/ SeedProvider
    \/ JobProvider

SpecSelect == InitSelect /\ [][NextSelect]_vars

\* ------------------------------------------------ overlapping refresh cycles
\* Nothing in main.py keeps a second data_ingestion_job() from starting
\* before the first has ended.  Each cycle runs update_ohlcv_data() on the
\* shared tables with its own local variables.  Two cycles overlap either as
\* tasks of one event loop, where a cycle is suspended only at the await of
\* the provider (the repository calls are not awaited), or as processes of
\* main(), where every repository call is a step of its own.
Cycles == 1..NumCycles

Deployments == {"tasks", "processes"}

NewCycle ==
    [pc |-> "job_fetch", i |-> 1, raw_data |-> <<>>, current_time |-> 0,
     existing_df |-> <<>>, updated_df |-> <<>>, error |-> ""]

InitCycles ==
    /\ HarnessIdle
    /\ SelectionIdle
    /\ ohlcv = [r \in Resolutions |-> <<>>]
    /\ indicators = [r \in Resolutions |-> <<>>]
    /\ policy \in Policies
    /\ clock = MaxTime - 1
    /\ deployment \in Deployments
    /\ cycles = [c \in Cycles |-> NewCycle]
    /\ provider = [symbols |-> <<>>, k |-> 1]
    /\ faults = 0
    /\ pc = "cycles"
    /\ caller = "job"
    /\ i = 1
    /\ raw_data = <<>>
    /\ current_time = 0
    /\ existing_df = <<>>
    /\ updated_df = <<>>
    /\ df = <<>>
    /\ todo = {}
    /\ error = ""
    /\ seeded = 0
    /\ jobs = 0
    /\ writes = <<>>
    /\ ind_started = FALSE
    /\ ind_written = {}
    /\ caught = {}
    /\ logged = ""
    /\ visited = {}

\* A cycle between the return of its fetch and the end of update_ohlcv_data.
Running(c) == cycles[c].pc \in {"raw_upsert", "interval_read", "interval_upsert"}

\* A task runs until it awaits something that suspends it: the other tasks
\* of the loop wait.  Processes run side by side.
CanStep(c) ==
    \/ deployment = "processes"
    \/ \A d \in Cycles \ {c} : ~Running(d)

\* What only process(), the harness or the import change.
beside == <<indicators, policy, provider, faults, pc, caller, i, locals, error, history,
            harness, selection, deployment>>

\* update_ohlcv_data() of cycle c: the fetch returns and the reference time
\* is read from the first row.  Time may have passed since the last fetch.
CycleFetch(c) ==
    /\ cycles[c].pc = "job_fetch"
    /\ CanStep(c)
    /\ clock' \in clock..MaxTime
    /\ \E p \in Providers :
         LET batch == get_current_ohlcv(p.symbols, p.k, clock')
         IN cycles' = [cycles EXCEPT ![c] =
                IF batch = <<>>
                THEN [@ EXCEPT !.pc = "aborted", !.error = "IndexError"]
                ELSE [@ EXCEPT !.pc = "raw_upsert", !.raw_data = batch,
                               !.current_time = batch[1].timestamp \div MsPerSecond]]
    /\ UNCHANGED <<ohlcv, beside>>

\* The upsert of cycle c's batch into ohlcv_raw.
CycleRawUpsert(c) ==
    /\ cycles[c].pc = "raw_upsert"
    /\ CanStep(c)
    /\ ohlcv' = [ohlcv EXCEPT !["raw"] = update(policy, @, cycles[c].raw_data, TsPredicate)]
    /\ cycles' = [cycles EXCEPT ![c] = [@ EXCEPT !.pc = "interval_read", !.i = 2]]
    /\ UNCHANGED <<clock, beside>>

CycleInterval(c) == interval_names[cycles[c].i]

\* update_interval_data() of cycle c up to the record to upsert.
CycleIntervalRead(c) ==
    /\ cycles[c].pc = "interval_read"
    /\ CanStep(c)
    /\ LET start == get_interval_start_time(cycles[c].current_time, CycleInterval(c))
           existing == get_by_timestamp(ohlcv[CycleInterval(c)], start * MsPerSecond)
       IN cycles' = [cycles EXCEPT ![c] =
              IF Len(existing) > 0
              THEN IF ShapeError(existing, cycles[c].raw_data)
                   THEN [@ EXCEPT !.pc = "aborted", !.error = "ShapeError",
                                  !.existing_df = existing]
                   ELSE [@ EXCEPT !.pc = "interval_upsert", !.existing_df = existing,
                                  !.updated_df =
                                      update_interval_record(existing, cycles[c].raw_data)]
              ELSE [@ EXCEPT !.pc = "interval_upsert", !.existing_df = existing,
                             !.updated_df =
                                 create_new_interval_record(start, CycleInterval(c),
                                                            cycles[c].raw_data)]]
    /\ UNCHANGED <<ohlcv, clock, beside>>

\* The upsert of cycle c's record; after "1d" update_ohlcv_data returns.
CycleIntervalUpsert(c) ==
    /\ cycles[c].pc = "interval_upsert"
    /\ CanStep(c)
    /\ ohlcv' = [ohlcv EXCEPT ![CycleInterval(c)] =
                    update(policy, @, cycles[c].updated_df, TsPredicate)]
    /\ cycles' = [cycles EXCEPT ![c] =
           IF cycles[c].i < Len(interval_names)
           THEN [@ EXCEPT !.pc = "interval_read", !.i = @ + 1]
           ELSE [@ EXCEPT !.pc = "done"]]
    /\ UNCHANGED <<clock, beside>>

NextCycles ==
    \/ \E c \in Cycles : CycleFetch(c)
    \/ \E c \in Cycles : CycleRawUpsert(c)
    \/ \E c \in Cycles : CycleIntervalRead(c)
    \/ \E c \in Cycles : CycleIntervalUpsert(c)

SpecCycles == InitCycles /\ [][NextCycles]_vars

\* update_ohlcv_data() run alone, from its raw upsert on: the loop over
\* interval_names[1:], ended by the exception of a merge of unequal frames.
RECURSIVE UpdateIntervalsFrom(_, _, _, _, _)
UpdateIntervalsFrom(pol, tabs, new_data_df, ct, j) ==
    IF j > Len(interval_names) THEN tabs
    ELSE LET r == interval_names[j]
             start == get_interval_start_time(ct, r)
             existing == get_by_timestamp(tabs[r], start * MsPerSecond)
         IN IF Len(existing) > 0 /\ ShapeError(existing, new_data_df) THEN tabs
            ELSE UpdateIntervalsFrom(
                     pol,
                     [tabs EXCEPT ![r] =
                         update(pol, @,
                                IF Len(existing) > 0
                                THEN update_interval_record(existing, new_data_df)
                                ELSE create_new_interval_record(start, r, new_data_df),
                                TsPredicate)],
                     new_data_df, ct, j + 1)

\* The tables update_ohlcv_data() leaves when nothing runs beside it.
update_ohlcv_data(pol, tabs, batch) ==
    IF batch = <<>> THEN tabs
    ELSE UpdateIntervalsFrom(pol,
                             [tabs EXCEPT !["raw"] = update(pol, @, batch, TsPredicate)],
                             batch, batch[1].timestamp \div MsPerSecond, 2)

\* The cycles run one after the other, in the given order.
RECURSIVE Serial(_, _, _)
Serial(pol, tabs, order) ==
    IF order = <<>> THEN tabs
    ELSE Serial(pol, update_ohlcv_data(pol, tabs, cycles[Head(order)].raw_data), Tail(order))

\* The orders in which the cycles can run one after the other.
Orders == {o \in [Cycles -> Cycles] : \A a, b \in Cycles : o[a] = o[b] => a = b}

\* ----------------------------------------------------------------- claims
\* The position of a resolution in interval_names.
Position(r) == CHOOSE j \in 1..Len(interval_names) : interval_names[j] = r

\* C1: in every reachable state each resolution table holds at most one
\* record per (timestamp, symbol) pair.
C1_OneRecordPerKey ==
    \A r \in Resolutions : \A a, b \in 1..Len(ohlcv[r]) :
        (ohlcv[r][a].timestamp = ohlcv[r][b].timestamp
            /\ ohlcv[r][a].symbol = ohlcv[r][b].symbol) => a = b

\* C2: when update_interval_data finds an existing bucket, every record it
\* is about to upsert keeps the existing row's timestamp, symbol and open,
\* has the larger of the two highs, the smaller of the two lows, the new
\* observation's close and the sum of the two volumes; and the merge of
\* (open 10, high 12, low 9, volume 100) with (high 13, low 8, close 11,
\* volume 50) is (open 10, high 13, low 8, close 11, volume 150).
C2_MergedRecord ==
    /\ update_interval_record(
           <<[timestamp |-> 0, symbol |-> "BTC", open |-> 10, high |-> 12,
              low |-> 9, close |-> 10, volume |-> 100]>>,
           <<[timestamp |-> 1800000, symbol |-> "BTC", open |-> 10, high |-> 13,
              low |-> 8, close |-> 11, volume |-> 50]>>)
         = <<[timestamp |-> 0, symbol |-> "BTC", open |-> 10, high |-> 13,
              low |-> 8, close |-> 11, volume |-> 150]>>
    /\ (pc = "interval_upsert" /\ existing_df # <<>>) =>
         /\ Len(updated_df) = Len(existing_df)
         /\ \A n \in 1..Len(updated_df) :
              /\ updated_df[n].timestamp = existing_df[n].timestamp
              /\ updated_df[n].symbol = existing_df[n].symbol
              /\ updated_df[n].open = existing_df[n].open
              /\ updated_df[n].high \in {existing_df[n].high, raw_data[n].high}
              /\ updated_df[n].high >= existing_df[n].high
              /\ updated_df[n].high >= raw_data[n].high
              /\ updated_df[n].low \in {existing_df[n].low, raw_data[n].low}
              /\ updated_df[n].low <= existing_df[n].low
              /\ updated_df[n].low <= raw_data[n].low
              /\ updated_df[n].close = raw_data[n].close
              /\ updated_df[n].volume = existing_df[n].volume + raw_data[n].volume

\* A merge in which the new observation raises the high and lowers the low.
C2_Witness ==
    /\ pc = "interval_upsert"
    /\ existing_df # <<>>
    /\ \E n \in 1..Len(existing_df) :
         /\ raw_data[n].high > existing_df[n].high
         /\ raw_data[n].low < existing_df[n].low
         /\ raw_data[n].close # existing_df[n].close
         /\ existing_df[n].volume > 0

\* C3: when update_interval_data finds no existing bucket, it is about to
\* upsert one record per row of the new batch, with that row's symbol, open,
\* high, low, close and volume and with the bucket start as timestamp.
C3_CreatedRecord ==
    (pc = "interval_upsert" /\ existing_df = <<>>) =>
        /\ Len(updated_df) = Len(raw_data)
        /\ \A n \in 1..Len(updated_df) :
             /\ updated_df[n].timestamp = IntervalStartMs
             /\ updated_df[n].symbol = raw_data[n].symbol
             /\ updated_df[n].open = raw_data[n].open
             /\ updated_df[n].high = raw_data[n].high
             /\ updated_df[n].low = raw_data[n].low
             /\ updated_df[n].close = raw_data[n].close
             /\ updated_df[n].volume = raw_data[n].volume

\* A bucket created for two symbols whose bucket start is not the candle's
\* own timestamp.
C3_Witness ==
    /\ pc = "interval_upsert"
    /\ existing_df = <<>>
    /\ Len(updated_df) = 2
    /\ updated_df[1].timestamp # raw_data[1].timestamp

\* C4: a batch of N rows upserted twice into an empty table, matched on
\* timestamp, leaves exactly N rows, the table of the first upsert.
C4_TwiceIsOnce ==
    pc = "upserted" =>
        /\ Len(ohlcv[IntervalName]) = Len(raw_data)
        /\ ohlcv[IntervalName] = df

\* C5: a failure caught for one symbol leaves the indicator tables as they
\* are and does not end the run; and when update_indicators_data has
\* returned, every symbol of every resolution was visited and every symbol
\* that did not fail has an indicator row for each of its OHLCV records.
C5_Completed ==
    pc \in {"job_fetch", "done"} =>
        \A r \in Resolutions : \A n \in 1..Len(ohlcv[r]) :
            /\ <<r, ohlcv[r][n].symbol>> \in visited
            /\ <<r, ohlcv[r][n].symbol>> \notin caught =>
                 \E m \in 1..Len(indicators[r]) :
                     /\ indicators[r][m].timestamp = ohlcv[r][n].timestamp
                     /\ indicators[r][m].symbol = ohlcv[r][n].symbol

C5_Isolated ==
    (caught' # caught /\ caught \subseteq caught') =>
        /\ indicators' = indicators
        /\ pc' # "aborted"
        /\ error' = error

C5_IndicatorFailureIsolated == []C5_Completed /\ [][C5_Isolated]_vars

\* The refresh cycle ended after a failure for one symbol of ohlcv_raw, with
\* indicator rows for another symbol of ohlcv_raw and for ohlcv_1d.
C5_Witness ==
    /\ pc = "done"
    /\ \E c \in caught :
         /\ c[1] = "raw"
         /\ \E m \in 1..Len(indicators["raw"]) : indicators["raw"][m].symbol # c[2]
         /\ \E n \in 1..Len(ohlcv["raw"]) : ohlcv["raw"][n].symbol = c[2]
    /\ indicators["1d"] # <<>>

\* C6: a historical fetch that returns no rows does not raise, changes no
\* table and is followed by the fetch of the next resolution (after "1d", by
\* update_indicators_data); during seed() the tables are upserted in the
\* order raw, 1h, 4h, 1d and a resolution not upserted is still empty.
C6_SeedOrder ==
    jobs = 0 =>
        /\ \A a, b \in 1..Len(writes) : a < b => Position(writes[a]) < Position(writes[b])
        /\ \A r \in Resolutions \ Range(writes) : ohlcv[r] = <<>>

C6_Skip ==
    (pc = "seed_fetch" /\ error' # "provider" /\ raw_data' = <<>>) =>
        /\ error' = ""
        /\ ohlcv' = ohlcv
        /\ indicators' = indicators
        /\ pc' = IF i < Len(interval_names) THEN "seed_fetch" ELSE "ind_load"
        /\ i' = IF i < Len(interval_names) THEN i + 1 ELSE 1

C6_EmptySeedSkipped == []C6_SeedOrder /\ [][C6_Skip]_vars

\* seed() skipped "1h" and upserted the resolutions before and after it.
C6_Witness ==
    /\ jobs = 0
    /\ pc = "ind_load"
    /\ writes = <<"raw", "4h", "1d">>
    /\ ohlcv["1h"] = <<>>
    /\ ohlcv["1d"] # <<>>

\* C7: seed() returns once, before data_ingestion_job() begins, which begins
\* at most once; process() ends only after both; and in the refresh cycle
\* update_indicators_data begins only after raw, 1h, 4h and 1d were upserted.
C7_SeedThenRefresh ==
    /\ seeded <= 1
    /\ jobs <= 1
    /\ jobs = 1 => seeded = 1
    /\ pc \in {"raw_upsert", "interval_read", "interval_upsert"} => jobs = 1
    /\ pc = "done" => (seeded = 1 /\ jobs = 1)
    /\ (jobs = 1 /\ (ind_started \/ pc \in {"ind_load", "ind_symbol"}))
           => writes = interval_names

\* process() ended with the indicators of every resolution refreshed.
C7_Witness ==
    /\ pc = "done"
    /\ ind_written = Resolutions

\* C8: after a provider failure on the current-candle fetch the run is
\* over, no OHLCV table was upserted in the cycle and
\* update_indicators_data did not run; the failing step changes no table.
C8_Aborted ==
    (jobs = 1 /\ error = "provider") =>
        /\ pc = "aborted"
        /\ writes = <<>>
        /\ ~ind_started
        /\ ind_written = {}
        /\ ~ENABLED Next

C8_NoWrite ==
    (pc = "job_fetch" /\ error' = "provider") =>
        /\ ohlcv' = ohlcv
        /\ indicators' = indicators

C8_ProviderFailureAborts == []C8_Aborted /\ [][C8_NoWrite]_vars

\* The current-candle fetch failed after a seed() that filled ohlcv_raw.
C8_Witness ==
    /\ jobs = 1
    /\ error = "provider"
    /\ ohlcv["raw"] # <<>>
    /\ indicators["raw"] # <<>>

\* C9: a storage failure is never logged and skipped: the only failure the
\* symbol loop survives is a computation failure, and a storage failure
\* ends the run.
C9_StorageFailFast ==
    /\ logged \in {"", "calc"}
    /\ error = "storage" => pc = "aborted"

\* C10: in the refresh cycle the tables are upserted in the order raw, 1h,
\* 4h, 1d, each once; a coarser table is read only when all before it were
\* upserted; indicators are touched only after all four; and the cycle ends
\* with all four upserted.
C10_RawFirst ==
    jobs = 1 =>
        /\ Len(writes) <= Len(interval_names)
        /\ writes = SubSeq(interval_names, 1, Len(writes))
        /\ pc \in {"interval_read", "interval_upsert"} => (i >= 2 /\ Len(writes) = i - 1)
        /\ (ind_started \/ ind_written # {}) => writes = interval_names
        /\ pc = "done" => writes = interval_names

\* A crash in the middle of the cycle: raw and 1h upserted, 4h and 1d not.
C10_Witness ==
    /\ jobs = 1
    /\ pc = "aborted"
    /\ writes = <<"raw", "1h">>

\* The position of a slug in plugin_names.
SlugPosition(s) == CHOOSE n \in 1..Len(plugin_names) : plugin_names[n] = s

\* C11: the plugin list test_chat hands to create_graph holds, once each and
\* in the order of plugin_names, exactly the plugins of plugin_names whose
\* exclude attribute is False; a plugin whose exclude is not False is
\* dropped without an error, and the only error of the selection is a slug
\* that is not registered.
C11_PluginsFiltered ==
    /\ pc \in {"get_model", "open_saver", "create_graph", "returned"} =>
         /\ \A n \in 1..Len(plugins) :
              /\ plugins[n].slug \in Range(plugin_names)
              /\ registry[plugins[n].slug] = "False"
              /\ plugins[n].exclude = "False"
         /\ \A s \in Range(plugin_names) :
              registry[s] = "False" => \E n \in 1..Len(plugins) : plugins[n].slug = s
         /\ \A a, b \in 1..Len(plugins) :
              a < b => SlugPosition(plugins[a].slug) < SlugPosition(plugins[b].slug)
    /\ pc = "returned" => graph.plugins = plugins
    /\ error = "KeyError" => ~(Range(plugin_names) \subseteq DOMAIN registry)
    /\ (pc = "raised" /\ Range(plugin_names) \subseteq DOMAIN registry) =>
         error \in {"model", "graph"}

\* The graph was built with three of the four plugins: the second is excluded.
C11_Witness ==
    /\ pc = "returned"
    /\ registry["QuantaraAI"] = "True"
    /\ Len(graph.plugins) = 3
    /\ graph.plugins[1].slug = "wallet"
    /\ graph.plugins[2].slug = "coin-technical-analyzer"
    /\ graph.plugins[3].slug = "coin-technical-chart-searcher"

\* C12: the checkpoint is open exactly while create_graph is being called;
\* once test_chat has returned or raised it is not open; and the graph
\* test_chat returns was built with a checkpoint that is closed by then.
C12_CheckpointScoped ==
    /\ pc = "create_graph" => saver = "open"
    /\ saver = "open" => pc = "create_graph"
    /\ pc \in {"returned", "raised"} => saver # "open"
    /\ pc = "returned" => (graph.memory = InMemory /\ saver = "closed")
    /\ error = "graph" => (saver = "closed" /\ graph = NoGraph)
    /\ graph # NoGraph => pc = "returned"

\* create_graph raised with the checkpoint open, and the checkpoint is closed.
C12_Witness ==
    /\ pc = "raised"
    /\ error = "graph"
    /\ saver = "closed"
    /\ Len(plugins) > 0

\* C13: once the module is imported DataProvider is bound, to the Binance
\* provider when DATA_PROVIDER was "binance", to the CoinPaprika provider when
\* it was "coinpaprika" and to the dummy provider for every other value and
\* when it was unset; seed() and update_ohlcv_data() both instantiate that
\* class, whatever the environment holds by then.
C13_ProviderSelected ==
    /\ pc # "import" => DataProvider # ""
    /\ DataProvider # "" =>
         /\ configured = "binance" => DataProvider = "BinanceCoinPriceDataProvider"
         /\ configured = "coinpaprika" => DataProvider = "CoinPaprikaCoinPriceDataProvider"
         /\ configured \notin {"binance", "coinpaprika"} =>
              DataProvider = "DummyCoinPriceDataProvider"
    /\ data_provider.seed \in {"", DataProvider}
    /\ data_provider.update_ohlcv_data \in {"", DataProvider}
    /\ pc = "update_ohlcv_data" => data_provider.seed = DataProvider
    /\ pc = "done" => data_provider.update_ohlcv_data = DataProvider

\* Imported under "coinpaprika"; the environment says "binance" by the time
\* the refresh cycle made its provider.
C13_Witness ==
    /\ pc = "done"
    /\ configured = "coinpaprika"
    /\ environ = "binance"
    /\ data_provider.seed = CoinPaprika
    /\ data_provider.update_ohlcv_data = CoinPaprika

\* C14: when update_interval_data merges an existing bucket with a new batch,
\* every record it is about to upsert, of symbol S, is the merge of an
\* existing bucket row of S with the new observation of S: its close and the
\* volume it adds are those of S's observation and of no other symbol.
C14_PairedBySymbol ==
    (pc = "interval_upsert" /\ existing_df # <<>>) =>
        \A n \in 1..Len(updated_df) :
            \E a \in 1..Len(existing_df), b \in 1..Len(raw_data) :
                /\ existing_df[a].symbol = updated_df[n].symbol
                /\ raw_data[b].symbol = updated_df[n].symbol
                /\ updated_df[n].open = existing_df[a].open
                /\ updated_df[n].high = Max(existing_df[a].high, raw_data[b].high)
                /\ updated_df[n].low = Min(existing_df[a].low, raw_data[b].low)
                /\ updated_df[n].close = raw_data[b].close
                /\ updated_df[n].volume = existing_df[a].volume + raw_data[b].volume

\* C16: when refresh cycles overlap, the bucket a cycle looked up is still
\* what the table holds when the cycle upserts its record (no other cycle's
\* step came between), and once all cycles have ended the tables are those
\* of the cycles run one after the other in some order.
C16_IntervalUpdateAtomic ==
    /\ \A c \in Cycles :
         cycles[c].pc = "interval_upsert" =>
             cycles[c].existing_df =
                 get_by_timestamp(ohlcv[CycleInterval(c)],
                                  get_interval_start_time(cycles[c].current_time,
                                                          CycleInterval(c)) * MsPerSecond)
    /\ (\A c \in Cycles : cycles[c].pc \in {"done", "aborted"}) =>
         \E o \in Orders : ohlcv = Serial(policy, [r \in Resolutions |-> <<>>], o)

\* The 30-minute observations of a symbol the cycles have fetched.
Observations(sym) ==
    {r \in UNION {Range(cycles[c].raw_data) : c \in Cycles} : r.symbol = sym}

\* The volume of one 30-minute candle of a symbol: the largest it was seen with.
CandleVolume(sym, ts) ==
    LET vs == {r.volume : r \in {x \in Observations(sym) : x.timestamp = ts}}
    IN CHOOSE v \in vs : \A w \in vs : w <= v

RECURSIVE SumVolumes(_, _)
SumVolumes(sym, tss) ==
    IF tss = {} THEN 0
    ELSE LET ts == CHOOSE x \in tss : TRUE
         IN CandleVolume(sym, ts) + SumVolumes(sym, tss \ {ts})

\* The volume of the distinct 30-minute candles of a symbol that fall in the
\* bucket of a resolution that starts at bucket_ms.
ObservedVolume(interval_name, bucket_ms, sym) ==
    SumVolumes(sym,
               {r.timestamp : r \in
                   {x \in Observations(sym) :
                       get_interval_start_time(x.timestamp \div MsPerSecond, interval_name)
                           * MsPerSecond = bucket_ms}})

\* Every batch fetched so far lists the same symbols in the same order.
SameListing ==
    \A c, d \in Cycles :
        \/ cycles[c].raw_data = <<>>
        \/ cycles[d].raw_data = <<>>
        \/ [n \in 1..Len(cycles[c].raw_data) |-> cycles[c].raw_data[n].symbol]
               = [n \in 1..Len(cycles[d].raw_data) |-> cycles[d].raw_data[n].symbol]

\* C15: starting from empty tables, whatever refresh cycles have run on
\* batches of the same symbols, the volume of every 1h, 4h and 1d record is
\* at most the volume of the distinct 30-minute candles of its symbol that
\* fall in its bucket: no candle is counted twice.
C15_VolumeCountedOnce ==
    SameListing =>
        \A r \in Resolutions \ {"raw"} : \A n \in 1..Len(ohlcv[r]) :
            ohlcv[r][n].volume
                <= ObservedVolume(r, ohlcv[r][n].timestamp, ohlcv[r][n].symbol)

\* The records of a table outside the bucket that starts at ms.
OtherBuckets(table, ms) == SelectSeq(table, LAMBDA r : r.timestamp # ms)

\* C17: the upsert of update_interval_data leaves every record of another
\* bucket of its table as it is and leaves the other tables alone; and when
\* the bucket was found, the table has as many records after it as before.
C17_Frame ==
    (pc = "interval_upsert" /\ pc' # "aborted") =>
        /\ OtherBuckets(ohlcv'[IntervalName], IntervalStartMs)
               = OtherBuckets(ohlcv[IntervalName], IntervalStartMs)
        /\ \A r \in Resolutions \ {IntervalName} : ohlcv'[r] = ohlcv[r]
        /\ existing_df # <<>> => Len(ohlcv'[IntervalName]) = Len(ohlcv[IntervalName])

WellFormed(r) ==
    /\ r.low <= r.open
    /\ r.open <= r.high
    /\ r.low <= r.close
    /\ r.close <= r.high
    /\ r.volume >= 0

\* C18: every row the provider returned being well-formed, every record of
\* every table is well-formed, and so is every record update_interval_data
\* is about to upsert, created or merged.
C18_WellFormedKept ==
    (\A n \in 1..Len(raw_data) : WellFormed(raw_data[n])) =>
        /\ \A r \in Resolutions : \A n \in 1..Len(ohlcv[r]) : WellFormed(ohlcv[r][n])
        /\ pc = "interval_upsert" =>
             \A n \in 1..Len(updated_df) : WellFormed(updated_df[n])

\* The 1h table holds a merged record whose high was raised and whose low
\* was lowered by the new observation.
C18_Witness ==
    /\ jobs = 1
    /\ writes = <<"raw", "1h">>
    /\ existing_df # <<>>
    /\ \E n \in 1..Len(updated_df) :
         /\ \E m \in 1..Len(ohlcv["1h"]) : ohlcv["1h"][m] = updated_df[n]
         /\ updated_df[n].high > existing_df[n].high
         /\ updated_df[n].low < existing_df[n].low
         /\ updated_df[n].close # existing_df[n].close

\* C19: when every historical fetch and the current fetch returned no rows
\* (and no fetch failed), process() does not raise: the refresh cycle goes
\* on past the empty batch, as seed() goes on past an empty historical one.
C19_EmptyBatchHandled ==
    (jobs = 1 /\ raw_data = <<>> /\ error # "provider"
        /\ \A r \in Resolutions : ohlcv[r] = <<>>) =>
        /\ pc # "aborted"
        /\ error = ""

====
